---------------------------- MODULE Spec2Model ----------------------------
(***************************************************************************)
(* Maze_Solver/main.cpp: randomized-Kruskal maze generation over a         *)
(* union-find, the canMove adjacency query, and the four search runs       *)
(* (runDFS, runBFS, runPQ with the zero and the Manhattan heuristic), each *)
(* in its skipAnimation (batch) and its animated (stepwise) variant.       *)
(***************************************************************************)
EXTENDS Integers, Sequences, FiniteSets, TLC

(* ------------------------------ bounds -------------------------------- *)
\* Largest number of cells (W*H) of a maze of the main specification.
MaxCells == 7
\* Largest number of cells of a maze of the seeded specification.
SeedMaxCells == 4
\* Largest value of the clock read by time(NULL) in the seeded specification.
MaxClock == 1
\* Largest number of generations in the seeded specification.
MaxGens == 3
\* Largest number of cells of a maze supplied by a caller.
AnyMaxCells == 7
\* Largest number of cells of a supplied maze in the specification with
\* fairness.
LiveMaxCells == 6

\* Largest number of elements of a DisjointSet used on its own.
MaxElems == 5

\* INT_MAX, the initial value of dist[] in runPQ.
IntMax == 2147483647

VARIABLES
    phase,          \* where main is with its Maze object
    mazeW, mazeH,   \* Maze::mazeW, Maze::mazeH
    hasRightWall,   \* Maze::hasRightWall[x][y]
    hasDownWall,    \* Maze::hasDownWall[x][y]
    edges,          \* generateRandom: the shuffled edges not yet iterated over
    dsParent,       \* DisjointSet::parent
    dsSz,           \* DisjointSet::sz
    clock,          \* the value time(NULL) returns
    seed,           \* the seed the current mt19937 was constructed with
    shuffled,       \* per seed, the order mt19937(seed) + shuffle has produced
    genPos,         \* generateRandom: number of edges iterated over so far
    gens,           \* the finished generations in order: [seed, right, down]
    pc,             \* position inside the chosen run function
    algo,           \* the run chosen in main's menu
    skipAnimation,  \* the run's skipAnimation argument
    parentOf,       \* the run's parentOf vector
    visitedSet,     \* the run's visitedSet
    stk,            \* runDFS: stk
    que,            \* runBFS: que
    pq,             \* runPQ: pq, a set of <<priority, cell>> pairs
    dist,           \* runPQ: dist
    cur,            \* the run's u of the last loop iteration
    expanded,       \* the cells u whose direction loop (for dir = 0..3) was entered
    events,         \* the drawFrame calls of the run, in order
    finalPath,      \* the cells drawFinalPath marked, in marking order
    finalStatus     \* the status line drawFinalPath printed

mazeVars   == <<phase, mazeW, mazeH, hasRightWall, hasDownWall>>
genVars    == <<edges, dsParent, dsSz, genPos>>
seedVars   == <<clock, seed, shuffled, gens>>
searchVars == <<pc, algo, skipAnimation, parentOf, visitedSet, stk, que, pq,
                dist, cur, expanded, events, finalPath, finalStatus>>
vars       == <<mazeVars, genVars, seedVars, searchVars>>

(* ------------------------- cellId <-> (x,y) ---------------------------- *)
cellId(x, y, W) == y * W + x

\* The / and % of int: the quotient is truncated toward zero and the
\* remainder takes the sign of the dividend (W = 0 is undefined).
truncDiv(a, b) ==
    LET q == (IF a < 0 THEN -a ELSE a) \div (IF b < 0 THEN -b ELSE b)
    IN  IF (a < 0) = (b < 0) THEN q ELSE -q

truncMod(a, b) == a - b * truncDiv(a, b)

cellPt(idx, W) == [x |-> truncMod(idx, W), y |-> truncDiv(idx, W)]

(* --------------------------- DisjointSet ------------------------------- *)
\* DisjointSet(n): parent = iota, sz = all 1.
DisjointSetParent(n) == [i \in 0..(n - 1) |-> i]

DisjointSetSz(n) == [i \in 0..(n - 1) |-> 1]

\* The value findRoot(x) returns on the parent vector p.
RECURSIVE findRoot(_, _)
findRoot(p, x) == IF p[x] = x THEN x ELSE findRoot(p, p[x])

\* The cells findRoot(x) passes through before it reaches the root.
RECURSIVE findPath(_, _)
findPath(p, x) == IF p[x] = x THEN {} ELSE {x} \cup findPath(p, p[x])

\* The parent vector after findRoot(x): path compression re-parents every
\* cell on the way to the root.
findRootCompress(p, x) ==
    LET r == findRoot(p, x)
        onPath == findPath(p, x)
    IN  [i \in DOMAIN p |-> IF i \in onPath THEN r ELSE p[i]]

\* unite with the swap turned round: the larger root goes under the smaller.
uniteLargerUnderSmaller(p, s, a0, b0) ==
    LET p1 == findRootCompress(p, a0)
        a1 == findRoot(p, a0)
        p2 == findRootCompress(p1, b0)
        b1 == findRoot(p1, b0)
        a  == IF s[a1] > s[b1] THEN b1 ELSE a1
        b  == IF s[a1] > s[b1] THEN a1 ELSE b1
    IN  IF a1 = b1
        THEN <<p2, s>>
        ELSE <<[p2 EXCEPT ![b] = a], [s EXCEPT ![a] = s[a] + s[b]]>>

\* unite without "parent[b] = a; sz[a] += sz[b]".
uniteNoLink(p, s, a0, b0) ==
    <<findRootCompress(findRootCompress(p, a0), b0), s>>

\* unite(a, b) on <<parent, sz>>: the new <<parent, sz>>.
unite(p, s, a0, b0) ==
    LET p1 == findRootCompress(p, a0)
        a1 == findRoot(p, a0)
        p2 == findRootCompress(p1, b0)
        b1 == findRoot(p1, b0)
        a  == IF s[a1] < s[b1] THEN b1 ELSE a1
        b  == IF s[a1] < s[b1] THEN a1 ELSE b1
    IN  IF a1 = b1
        THEN <<p2, s>>
        ELSE <<[p2 EXCEPT ![b] = a], [s EXCEPT ![a] = s[a] + s[b]]>>

(* ------------------------------- Maze ---------------------------------- *)
\* Maze(w, h): both grids w x h, every wall present.
MazeWalls(w, h) == [x \in 0..(w - 1) |-> [y \in 0..(h - 1) |-> TRUE]]

\* generateRandom, lines 60-65: the candidate edges.
EdgeList(W, H) ==
    {[x |-> x, y |-> y, dir |-> 1] : x \in 0..(W - 2), y \in 0..(H - 1)}
    \cup {[x |-> x, y |-> y, dir |-> 2] : x \in 0..(W - 1), y \in 0..(H - 2)}

EdgeA(e, W) == e.y * W + e.x

EdgeB(e, W) == IF e.dir = 1 THEN EdgeA(e, W) + 1 ELSE EdgeA(e, W) + W

\* canMove whose left case reads the cell's own right wall.
canMoveLeftOwnWall(x, y, dir) ==
    IF dir = 0 THEN (IF y = 0 THEN FALSE ELSE ~hasDownWall[x][y - 1])
    ELSE IF dir = 1 THEN (IF x + 1 >= mazeW THEN FALSE ELSE ~hasRightWall[x][y])
    ELSE IF dir = 2 THEN (IF y + 1 >= mazeH THEN FALSE ELSE ~hasDownWall[x][y])
    ELSE IF dir = 3 THEN (IF x = 0 THEN FALSE ELSE ~hasRightWall[x][y])
    ELSE FALSE

\* canMove whose down case reads the right wall.
canMoveDownReadsRight(x, y, dir) ==
    IF dir = 0 THEN (IF y = 0 THEN FALSE ELSE ~hasDownWall[x][y - 1])
    ELSE IF dir = 1 THEN (IF x + 1 >= mazeW THEN FALSE ELSE ~hasRightWall[x][y])
    ELSE IF dir = 2 THEN (IF y + 1 >= mazeH THEN FALSE ELSE ~hasRightWall[x][y])
    ELSE IF dir = 3 THEN (IF x = 0 THEN FALSE ELSE ~hasRightWall[x - 1][y])
    ELSE FALSE

\* Maze::canMove on the current maze.
canMove(x, y, dir) ==
    IF dir = 0 THEN (IF y = 0 THEN FALSE ELSE ~hasDownWall[x][y - 1])
    ELSE IF dir = 1 THEN (IF x + 1 >= mazeW THEN FALSE ELSE ~hasRightWall[x][y])
    ELSE IF dir = 2 THEN (IF y + 1 >= mazeH THEN FALSE ELSE ~hasDownWall[x][y])
    ELSE IF dir = 3 THEN (IF x = 0 THEN FALSE ELSE ~hasRightWall[x - 1][y])
    ELSE FALSE

(* ------------------------ construction: Maze(w,h) ---------------------- *)
\* The dimensions a caller may pass to Maze(w, h).
Dims(maxCells) ==
    {d \in (-1..maxCells) \X (-1..maxCells) :
        d[1] <= 0 \/ d[2] <= 0 \/ d[1] * d[2] <= maxCells}

\* The search state of a run that has not started (no run function active).
NoRun ==
    /\ pc = "idle"
    /\ algo = "none"
    /\ skipAnimation = FALSE
    /\ parentOf = <<>>
    /\ visitedSet = {}
    /\ stk = <<>>
    /\ que = <<>>
    /\ pq = {}
    /\ dist = <<>>
    /\ cur = -1
    /\ expanded = {}
    /\ events = <<>>
    /\ finalPath = <<>>
    /\ finalStatus = ""

InitCommon ==
    /\ phase = "start"
    /\ hasRightWall = <<>>
    /\ hasDownWall = <<>>
    /\ edges = {}
    /\ dsParent = <<>>
    /\ dsSz = <<>>
    /\ genPos = 0
    /\ clock = 0
    /\ seed = 0
    /\ shuffled = [s \in 0..MaxClock |-> <<>>]
    /\ gens = <<>>
    /\ NoRun

Init ==
    /\ \E d \in Dims(MaxCells) : mazeW = d[1] /\ mazeH = d[2]
    /\ InitCommon

\* Maze(w, h), lines 52-55. No check of w or h: with w = 0 or h = 0 the
\* two assigns succeed and leave empty grids. A negative size converts to a
\* huge size_t. With h >= 0 > w, vector::assign throws std::length_error.
\* With h < 0 the inner vector<bool>(h, true) is built first, and what it
\* does with such a size is undefined: an exception from the assign that
\* follows, a crash, or (with w = 0, where no copy of it is made) a maze
\* object with empty grids.
Construct ==
    /\ phase = "start"
    /\ IF mazeW >= 0 /\ mazeH >= 0
       THEN /\ phase' = "constructed"
            /\ hasRightWall' = MazeWalls(mazeW, mazeH)
            /\ hasDownWall' = MazeWalls(mazeW, mazeH)
       ELSE IF mazeH >= 0
       THEN /\ phase' = "threw"
            /\ UNCHANGED <<hasRightWall, hasDownWall>>
       ELSE \/ /\ phase' \in {"threw", "undefined"}
               /\ UNCHANGED <<hasRightWall, hasDownWall>>
            \/ /\ mazeW = 0
               /\ phase' = "constructed"
               /\ hasRightWall' = MazeWalls(mazeW, mazeH)
               /\ hasDownWall' = MazeWalls(mazeW, mazeH)
    /\ UNCHANGED <<mazeW, mazeH, genVars, seedVars, searchVars>>

(* ------------------------- Maze::generateRandom ------------------------ *)
\* Lines 58-69: the edge list, the generator seeded from the clock, the
\* shuffle and the fresh DisjointSet. std::shuffle leaves the list in some
\* permutation; the loop below takes the next edge of that permutation.
GenStart ==
    /\ phase = "constructed"
    /\ Len(gens) < MaxGens
    /\ phase' = "generating"
    /\ edges' = EdgeList(mazeW, mazeH)
    /\ seed' = clock
    /\ dsParent' = DisjointSetParent(mazeW * mazeH)
    /\ dsSz' = DisjointSetSz(mazeW * mazeH)
    /\ genPos' = 0
    /\ UNCHANGED <<mazeW, mazeH, hasRightWall, hasDownWall, clock, shuffled,
                   gens, searchVars>>

\* The loop body without the test "findRoot(a) != findRoot(b)".
ProcessEdgeNoTest(e) ==
    LET a  == EdgeA(e, mazeW)
        b  == EdgeB(e, mazeW)
        p1 == findRootCompress(dsParent, a)
        p2 == findRootCompress(p1, b)
        u  == unite(p2, dsSz, a, b)
    IN  /\ IF e.dir = 1
           THEN /\ hasRightWall' = [hasRightWall EXCEPT ![e.x][e.y] = FALSE]
                /\ UNCHANGED hasDownWall
           ELSE /\ hasDownWall' = [hasDownWall EXCEPT ![e.x][e.y] = FALSE]
                /\ UNCHANGED hasRightWall
        /\ dsParent' = u[1]
        /\ dsSz' = u[2]
        /\ edges' = edges \ {e}
        /\ genPos' = genPos + 1

\* The loop body clearing hasRightWall for a down edge too.
ProcessEdgeRightOnly(e) ==
    LET a  == EdgeA(e, mazeW)
        b  == EdgeB(e, mazeW)
        ra == findRoot(dsParent, a)
        p1 == findRootCompress(dsParent, a)
        rb == findRoot(p1, b)
        p2 == findRootCompress(p1, b)
        u  == unite(p2, dsSz, a, b)
    IN  /\ IF ra # rb
           THEN /\ hasRightWall' = [hasRightWall EXCEPT ![e.x][e.y] = FALSE]
                /\ UNCHANGED hasDownWall
                /\ dsParent' = u[1]
                /\ dsSz' = u[2]
           ELSE /\ dsParent' = p2
                /\ UNCHANGED <<hasRightWall, hasDownWall, dsSz>>
        /\ edges' = edges \ {e}
        /\ genPos' = genPos + 1

\* One iteration of the loop of lines 70-78 on edge e.
ProcessEdge(e) ==
    LET a  == EdgeA(e, mazeW)
        b  == EdgeB(e, mazeW)
        ra == findRoot(dsParent, a)
        p1 == findRootCompress(dsParent, a)
        rb == findRoot(p1, b)
        p2 == findRootCompress(p1, b)
        u  == unite(p2, dsSz, a, b)
    IN  /\ IF ra # rb
           THEN /\ IF e.dir = 1
                   THEN /\ hasRightWall' = [hasRightWall EXCEPT ![e.x][e.y] = FALSE]
                        /\ UNCHANGED hasDownWall
                   ELSE /\ hasDownWall' = [hasDownWall EXCEPT ![e.x][e.y] = FALSE]
                        /\ UNCHANGED hasRightWall
                /\ dsParent' = u[1]
                /\ dsSz' = u[2]
           ELSE /\ dsParent' = p2
                /\ UNCHANGED <<hasRightWall, hasDownWall, dsSz>>
        /\ edges' = edges \ {e}
        /\ genPos' = genPos + 1

\* The loop body on the next edge of the shuffled list, for any shuffle.
GenStep ==
    /\ phase = "generating"
    /\ \E e \in edges : ProcessEdge(e)
    /\ UNCHANGED <<phase, mazeW, mazeH, seedVars, searchVars>>

\* Line 79: the loop is over; edges, rng and ds go out of scope.
GenReturn ==
    /\ phase = "generating"
    /\ edges = {}
    /\ phase' = "generated"
    /\ dsParent' = <<>>
    /\ dsSz' = <<>>
    /\ genPos' = 0
    /\ UNCHANGED <<mazeW, mazeH, hasRightWall, hasDownWall, edges, seedVars,
                   searchVars>>

(* ------------------------------ search --------------------------------- *)
\* N and the goal cell cellId(W-1, H-1, W) of the run functions.
NumCells == mazeW * mazeH

\* A goal past the last cell id, which no cell equals.
GoalCellNone == NumCells

GoalCell == cellId(mazeW - 1, mazeH - 1, mazeW)

\* nx, ny of the direction loops: pu + (dir==1) - (dir==3), (dir==2) - (dir==0).
Neighbour(u, dir) ==
    LET pu == cellPt(u, mazeW)
    IN  [x |-> pu.x + (IF dir = 1 THEN 1 ELSE 0) - (IF dir = 3 THEN 1 ELSE 0),
         y |-> pu.y + (IF dir = 2 THEN 1 ELSE 0) - (IF dir = 0 THEN 1 ELSE 0)]

\* The negation of "nx<0||nx>=W||ny<0||ny>=H".
InGrid(p) == ~(p.x < 0 \/ p.x >= mazeW \/ p.y < 0 \/ p.y >= mazeH)

\* "mz.canMove(pu.x, pu.y, dir)" after the in-grid test of the direction loops.
Passable(u, dir) ==
    /\ InGrid(Neighbour(u, dir))
    /\ canMove(cellPt(u, mazeW).x, cellPt(u, mazeW).y, dir)

NeighbourId(u, dir) == cellId(Neighbour(u, dir).x, Neighbour(u, dir).y, mazeW)

\* One drawFrame call: what it is given to draw.
Frame(frontierSet, visited, currentCell, message) ==
    [currentCell |-> currentCell, frontierSnapshot |-> frontierSet,
     visitedSnapshot |-> visited, message |-> message]

\* The heuristics main passes to runPQ.
zeroH(v) == 0

Abs(i) == IF i < 0 THEN -i ELSE i

\* manH measured to (W, H), one past the goal in both coordinates.
manHPastGoal(v) ==
    LET p == cellPt(v, mazeW)
    IN  Abs(p.x - mazeW) + Abs(p.y - mazeH)

manH(v) ==
    LET p == cellPt(v, mazeW)
    IN  Abs(p.x - (mazeW - 1)) + Abs(p.y - (mazeH - 1))

Heuristic(a, v) == IF a = "A*" THEN manH(v) ELSE zeroH(v)

\* pq.top() of priority_queue<pair<int,int>, ..., greater<>>: the least pair,
\* compared by priority first and by cell second.
PairLess(a, b) == a[1] < b[1] \/ (a[1] = b[1] /\ a[2] < b[2])

pqTop(q) == CHOOSE a \in q : \A b \in q : a = b \/ PairLess(a, b)

\* drawFinalPath, lines 245-248: the walk "for (v = endCell; v != -1;
\* v = parentOf[v])" continued from v, seen being the cells it has marked.
\* returns tells whether the loop is left: it is left when v gets to -1,
\* and never once v comes back to a marked cell, for then the walk goes
\* round that cycle of parent entries for ever. cells are the cells marked
\* '*' in marking order when the loop is left (<<>> when it is not).
RECURSIVE PathChain(_, _, _)
PathChain(par, v, seen) ==
    IF v = -1 THEN [returns |-> TRUE, cells |-> <<>>]
    ELSE IF v \in seen THEN [returns |-> FALSE, cells |-> <<>>]
    ELSE LET rest == PathChain(par, par[v], seen \cup {v})
         IN  [returns |-> rest.returns,
              cells |-> IF rest.returns THEN <<v>> \o rest.cells ELSE <<>>]

drawFinalPath(par, endCell) == PathChain(par, endCell, {})

Algos == {"DFS", "BFS", "Dijkstra", "A*"}

\* The start of runDFS / runBFS / runPQ up to the loop (lines 281-288 and
\* 318-327, 373-380 and 402-411, 445-455 and 481-489).
RunStart(a, skip) ==
    /\ phase \in {"generated", "supplied"}
    /\ pc = "idle"
    /\ NumCells > 0
    /\ pc' = "loop"
    /\ algo' = a
    /\ skipAnimation' = skip
    /\ parentOf' = [i \in 0..(NumCells - 1) |-> -1]
    /\ visitedSet' = {0}
    /\ stk' = IF a = "DFS" THEN <<0>> ELSE <<>>
    /\ que' = IF a = "BFS" THEN <<0>> ELSE <<>>
    /\ pq' = IF a \in {"Dijkstra", "A*"} THEN {<<Heuristic(a, 0), 0>>} ELSE {}
    /\ dist' = IF a \in {"Dijkstra", "A*"}
               THEN [i \in 0..(NumCells - 1) |-> IF i = 0 THEN 0 ELSE IntMax]
               ELSE <<>>
    /\ finalStatus' = ""
    /\ cur' = -1
    /\ expanded' = {}
    /\ events' = IF skip THEN <<>> ELSE <<Frame({}, {0}, -1, "starting")>>
    /\ finalPath' = <<>>
    /\ UNCHANGED <<mazeVars, genVars, seedVars>>

\* A run function called on a maze without cells: cellPt divides by W = 0,
\* or AsciiCanvas writes baseGrid[1][0] of a one-row grid. Undefined.
RunOnEmpty ==
    /\ phase = "generated"
    /\ pc = "idle"
    /\ NumCells = 0
    /\ pc' = "undefined"
    /\ \E a \in Algos : algo' = a
    /\ UNCHANGED <<skipAnimation, parentOf, visitedSet, stk, que, pq, dist, cur,
                   expanded, events, finalPath, finalStatus, mazeVars, genVars,
                   seedVars>>

\* nextCell without the canMove test.
dfsNextCellNoWalls(u, visited) ==
    LET ok == {dir \in 0..3 : InGrid(Neighbour(u, dir))
                              /\ NeighbourId(u, dir) \notin visited}
    IN  IF ok = {} THEN -1
        ELSE NeighbourId(u, CHOOSE d \in ok : \A e \in ok : d <= e)

\* nextCell taken from the last direction that qualifies, not the first.
dfsNextCellLastDir(u, visited) ==
    LET ok == {dir \in 0..3 : Passable(u, dir) /\ NeighbourId(u, dir) \notin visited}
    IN  IF ok = {} THEN -1
        ELSE NeighbourId(u, CHOOSE d \in ok : \A e \in ok : d >= e)

\* runDFS: nextCell of lines 294-304 (335-345).
dfsNextCell(u, visited) ==
    LET ok == {dir \in 0..3 : Passable(u, dir) /\ NeighbourId(u, dir) \notin visited}
    IN  IF ok = {} THEN -1
        ELSE NeighbourId(u, CHOOSE d \in ok : \A e \in ok : d <= e)

\* A pop_back that leaves the vector as it is.
pop_backKeeps(s) == s

\* vector::pop_back on stk (lines 310, 360).
pop_back(s) == SubSeq(s, 1, Len(s) - 1)

\* One iteration of the while loop of runDFS (lines 289-312, 329-366).
DFSIter ==
    /\ pc = "loop"
    /\ algo = "DFS"
    /\ stk # <<>>
    /\ LET u == stk[Len(stk)]
           nextCell == dfsNextCell(u, visitedSet)
       IN  /\ cur' = u
           /\ expanded' = IF u = GoalCell THEN expanded ELSE expanded \cup {u}
           /\ IF u = GoalCell
              THEN /\ pc' = "final"
                   /\ UNCHANGED <<parentOf, stk, visitedSet, events>>
              ELSE IF nextCell # -1
              THEN /\ parentOf' = [parentOf EXCEPT ![nextCell] = u]
                   /\ stk' = Append(stk, nextCell)
                   /\ visitedSet' = visitedSet \cup {nextCell}
                   /\ events' = IF skipAnimation THEN events
                                ELSE events \o
                                     <<Frame({}, visitedSet, u, "expanding"),
                                       Frame({nextCell}, visitedSet \cup {nextCell},
                                             u, "add to frontier")>>
                   /\ pc' = "loop"
              ELSE /\ stk' = pop_back(stk)
                   /\ events' = IF skipAnimation THEN events
                                ELSE Append(events,
                                            Frame({}, visitedSet, u, "dead end"))
                   /\ pc' = IF Len(stk) = 1 THEN "final" ELSE "loop"
                   /\ UNCHANGED <<parentOf, visitedSet>>
    /\ UNCHANGED <<algo, skipAnimation, que, pq, dist, finalPath, finalStatus,
                   mazeVars, genVars, seedVars>>

\* The direction loop without the "!visitedSet.count(vid)" test.
RECURSIVE bfsDirsNoVisitedTest(_, _, _)
bfsDirsNoVisitedTest(st, u, dir) ==
    IF dir > 3 THEN st
    ELSE LET vid == NeighbourId(u, dir)
         IN  IF Passable(u, dir)
             THEN bfsDirsNoVisitedTest(
                      [visited |-> st.visited \cup {vid},
                       parent |-> [st.parent EXCEPT ![vid] = u],
                       que |-> Append(st.que, vid),
                       events |-> IF skipAnimation THEN st.events
                                  ELSE Append(st.events,
                                              Frame({vid}, st.visited \cup {vid},
                                                    u, "enqueue"))],
                      u, dir + 1)
             ELSE bfsDirsNoVisitedTest(st, u, dir + 1)

\* The direction loop with "parentOf[u] = vid" for "parentOf[vid] = u".
RECURSIVE bfsDirsParentSwapped(_, _, _)
bfsDirsParentSwapped(st, u, dir) ==
    IF dir > 3 THEN st
    ELSE LET vid == NeighbourId(u, dir)
         IN  IF Passable(u, dir) /\ vid \notin st.visited
             THEN bfsDirsParentSwapped(
                      [visited |-> st.visited \cup {vid},
                       parent |-> [st.parent EXCEPT ![u] = vid],
                       que |-> Append(st.que, vid),
                       events |-> IF skipAnimation THEN st.events
                                  ELSE Append(st.events,
                                              Frame({vid}, st.visited \cup {vid},
                                                    u, "enqueue"))],
                      u, dir + 1)
             ELSE bfsDirsParentSwapped(st, u, dir + 1)

\* runBFS: the direction loop of lines 385-395 (422-436) from direction dir
\* on, on st = [visited, parent, que, events].
RECURSIVE bfsDirs(_, _, _)
bfsDirs(st, u, dir) ==
    IF dir > 3 THEN st
    ELSE LET vid == NeighbourId(u, dir)
         IN  IF Passable(u, dir) /\ vid \notin st.visited
             THEN bfsDirs([visited |-> st.visited \cup {vid},
                           parent |-> [st.parent EXCEPT ![vid] = u],
                           que |-> Append(st.que, vid),
                           events |-> IF skipAnimation THEN st.events
                                      ELSE Append(st.events,
                                                  Frame({vid}, st.visited \cup {vid},
                                                        u, "enqueue"))],
                          u, dir + 1)
             ELSE bfsDirs(st, u, dir + 1)

\* One iteration of the while loop of runBFS (lines 381-396, 413-437).
BFSIter ==
    /\ pc = "loop"
    /\ algo = "BFS"
    /\ que # <<>>
    /\ LET u == Head(que)
           ev == IF skipAnimation THEN events
                 ELSE Append(events, Frame({}, visitedSet, u, "expanding"))
           st == bfsDirs([visited |-> visitedSet, parent |-> parentOf,
                          que |-> Tail(que), events |-> ev], u, 0)
       IN  /\ cur' = u
           /\ expanded' = IF u = GoalCell THEN expanded ELSE expanded \cup {u}
           /\ IF u = GoalCell
              THEN /\ pc' = "final"
                   /\ que' = Tail(que)
                   /\ events' = ev
                   /\ UNCHANGED <<parentOf, visitedSet>>
              ELSE /\ visitedSet' = st.visited
                   /\ parentOf' = st.parent
                   /\ que' = st.que
                   /\ events' = st.events
                   /\ pc' = IF st.que = <<>> THEN "final" ELSE "loop"
    /\ UNCHANGED <<algo, skipAnimation, stk, pq, dist, finalPath, finalStatus,
                   mazeVars, genVars, seedVars>>

\* runPQ: the direction loop of lines 461-474 (511-530) from direction dir
\* on, for heuristic of run a, on st = [dist, parent, pq, events];
\* frontierSet and visited are what the stepwise loop hands to drawFrame.
RECURSIVE pqDirs(_, _, _, _, _, _, _)
pqDirs(a, skip, st, u, dir, frontierSet, visited) ==
    IF dir > 3 THEN st
    ELSE LET vid == NeighbourId(u, dir)
             alt == st.dist[u] + 1
         IN  IF Passable(u, dir) /\ alt < st.dist[vid]
             THEN pqDirs(a, skip,
                         [dist |-> [st.dist EXCEPT ![vid] = alt],
                          parent |-> [st.parent EXCEPT ![vid] = u],
                          pq |-> st.pq \cup {<<alt + Heuristic(a, vid), vid>>},
                          events |-> IF skip THEN st.events
                                     ELSE Append(st.events,
                                                 Frame(frontierSet, visited, u,
                                                       "relax edge"))],
                         u, dir + 1, frontierSet, visited)
             ELSE pqDirs(a, skip, st, u, dir + 1, frontierSet, visited)

\* The locals of runPQ before the loop (lines 445-455, 481-489).
pqInit(a, skip) ==
    [pc |-> "loop",
     visited |-> {0},
     dist |-> [i \in 0..(NumCells - 1) |-> IF i = 0 THEN 0 ELSE IntMax],
     parent |-> [i \in 0..(NumCells - 1) |-> -1],
     pq |-> {<<Heuristic(a, 0), 0>>},
     events |-> IF skip THEN <<>> ELSE <<Frame({}, {0}, -1, "starting")>>,
     cur |-> -1,
     expanded |-> {}]

\* The loop body without "if (u == goal) break".
pqIterNoGoalTest(a, skip, r) ==
    LET frontierList == {e[2] : e \in r.pq}
        u  == pqTop(r.pq)[2]
        q1 == r.pq \ {pqTop(r.pq)}
        v1 == r.visited \cup {u}
        ev == IF skip THEN r.events
              ELSE Append(r.events, Frame(frontierList, v1, u, "expanding"))
        st == pqDirs(a, skip, [dist |-> r.dist, parent |-> r.parent, pq |-> q1,
                               events |-> ev], u, 0, frontierList, v1)
    IN  [pc |-> IF st.pq = {} THEN "final" ELSE "loop", visited |-> v1,
         dist |-> st.dist, parent |-> st.parent, pq |-> st.pq,
         events |-> st.events, cur |-> u,
         expanded |-> r.expanded \cup {u}]

\* One iteration of the while loop of runPQ (lines 456-475, 491-531) on the
\* locals r. The batch loop tests for the goal before it inserts u into
\* visitedSet, the stepwise loop after.
pqIter(a, skip, r) ==
    LET frontierList == {e[2] : e \in r.pq}
        u  == pqTop(r.pq)[2]
        q1 == r.pq \ {pqTop(r.pq)}
        v1 == r.visited \cup {u}
        ev == IF skip THEN r.events
              ELSE Append(r.events, Frame(frontierList, v1, u, "expanding"))
        st == pqDirs(a, skip, [dist |-> r.dist, parent |-> r.parent, pq |-> q1,
                               events |-> ev], u, 0, frontierList, v1)
    IN  IF u = GoalCell
        THEN [pc |-> "final", visited |-> IF skip THEN r.visited ELSE v1,
              dist |-> r.dist, parent |-> r.parent, pq |-> q1, events |-> ev,
              cur |-> u, expanded |-> r.expanded]
        ELSE [pc |-> IF st.pq = {} THEN "final" ELSE "loop", visited |-> v1,
              dist |-> st.dist, parent |-> st.parent, pq |-> st.pq,
              events |-> st.events, cur |-> u,
              expanded |-> r.expanded \cup {u}]

PQIter ==
    /\ pc = "loop"
    /\ algo \in {"Dijkstra", "A*"}
    /\ pq # {}
    /\ \E r \in {pqIter(algo, skipAnimation,
                       [pc |-> pc, visited |-> visitedSet, dist |-> dist,
                        parent |-> parentOf, pq |-> pq, events |-> events,
                        cur |-> cur, expanded |-> expanded])} :
           /\ pc' = r.pc
           /\ visitedSet' = r.visited
           /\ dist' = r.dist
           /\ parentOf' = r.parent
           /\ pq' = r.pq
           /\ events' = r.events
           /\ cur' = r.cur
           /\ expanded' = r.expanded
    /\ UNCHANGED <<algo, skipAnimation, stk, que, finalPath, finalStatus,
                   mazeVars, genVars, seedVars>>

\* The locals of runPQ when its loop is left, started from the locals r.
RECURSIVE pqRun(_, _, _)
pqRun(a, skip, r) == IF r.pc # "loop" THEN r ELSE pqRun(a, skip, pqIter(a, skip, r))

\* The call of drawFinalPath that ends every run function (lines 313-314,
\* 368, 397-398, 439, 476-477, 533): reached after the break at the goal
\* and after the loop condition failed alike.
DrawFinalPath ==
    /\ pc = "final"
    /\ \E walk \in {drawFinalPath(parentOf, GoalCell)} :
          IF walk.returns
          THEN /\ pc' = "done"
               /\ finalPath' = walk.cells
               /\ finalStatus' = "FINAL (exit found) - displaying path"
          ELSE /\ pc' = "undefined"
               /\ UNCHANGED <<finalPath, finalStatus>>
    /\ UNCHANGED <<algo, skipAnimation, parentOf, visitedSet, stk, que, pq, dist,
                   cur, expanded, events, mazeVars, genVars, seedVars>>

\* The run function has returned: its locals are gone.
RunReturned ==
    /\ pc' = "idle"
    /\ algo' = "none"
    /\ skipAnimation' = FALSE
    /\ parentOf' = <<>>
    /\ visitedSet' = {}
    /\ stk' = <<>>
    /\ que' = <<>>
    /\ pq' = {}
    /\ dist' = <<>>
    /\ cur' = -1
    /\ expanded' = {}
    /\ events' = <<>>
    /\ finalPath' = <<>>
    /\ finalStatus' = ""

\* main, lines 699-701: "Run another algorithm on SAME maze".
SameMaze ==
    /\ pc = "done"
    /\ RunReturned
    /\ UNCHANGED <<mazeVars, genVars, seedVars>>

\* main, lines 702-704 and 715-716: "Generate a NEW maze", with the same
\* mazeWidth and mazeHeight.
NewMaze ==
    /\ pc = "done"
    /\ RunReturned
    /\ phase' = "start"
    /\ hasRightWall' = <<>>
    /\ hasDownWall' = <<>>
    /\ UNCHANGED <<mazeW, mazeH, genVars, seedVars>>

Next ==
    \/ Construct
    \/ GenStart
    \/ GenStep
    \/ GenReturn
    \/ \E a \in Algos, skip \in BOOLEAN : RunStart(a, skip)
    \/ RunOnEmpty
    \/ DFSIter
    \/ BFSIter
    \/ PQIter
    \/ DrawFinalPath
    \/ SameMaze
    \/ NewMaze

\* main: Maze(30, 15), generateRandom, then the menu loop.
Spec == Init /\ [][Next]_vars

(* ------------------ runs on a maze supplied by a caller ---------------- *)
\* Maze is a struct with public wall grids and the run functions take any
\* const Maze&: the walls between cells are whatever the caller left there.
\* The entries of the last column of hasRightWall and of the last row of
\* hasDownWall are never read by canMove and stay as Maze(w, h) set them.
AnyWalls(W, H) ==
    {g \in [0..(W - 1) -> [0..(H - 1) -> BOOLEAN]] : TRUE}

InitAnyMazeOf(maxCells) ==
    /\ \E d \in Dims(maxCells) :
          /\ d[1] > 0 /\ d[2] > 0
          /\ mazeW = d[1] /\ mazeH = d[2]
    /\ hasRightWall \in {g \in AnyWalls(mazeW, mazeH) :
                            \A y \in 0..(mazeH - 1) : g[mazeW - 1][y]}
    /\ hasDownWall \in {g \in AnyWalls(mazeW, mazeH) :
                            \A x \in 0..(mazeW - 1) : g[x][mazeH - 1]}
    /\ phase = "supplied"
    /\ edges = {}
    /\ dsParent = <<>>
    /\ dsSz = <<>>
    /\ genPos = 0
    /\ clock = 0
    /\ seed = 0
    /\ shuffled = [s \in 0..MaxClock |-> <<>>]
    /\ gens = <<>>
    /\ NoRun

InitAnyMaze == InitAnyMazeOf(AnyMaxCells)

NextAnyMaze ==
    \/ \E a \in Algos, skip \in BOOLEAN : RunStart(a, skip)
    \/ DFSIter
    \/ BFSIter
    \/ PQIter
    \/ DrawFinalPath
    \/ SameMaze

SpecAnyMaze == InitAnyMaze /\ [][NextAnyMaze]_vars

\* The same on mazes of at most LiveMaxCells cells, with the loops running
\* on: a run function is sequential code, so a loop iteration that can be
\* taken is taken. In the stepwise loops this takes drawFrame to return,
\* which it does once the terminal is large enough for the canvas (lines
\* 188-198), as the user is asked to arrange before the loop starts.
InitAnyMazeLive == InitAnyMazeOf(LiveMaxCells)

SpecAnyMazeFair ==
    /\ InitAnyMazeLive
    /\ [][NextAnyMaze]_vars
    /\ WF_vars(DFSIter \/ BFSIter \/ PQIter)

(* ------------------- generation with the seed in view ------------------ *)
\* mt19937 seeded with s and std::shuffle over a list of a given length are
\* deterministic: the order they leave the edge list in is a function of s.
\* shuffled[s] holds as much of that order as has been observed; e can be
\* the edge at position genPos of the list shuffled with the current seed
\* only if it agrees with it.
\* A generator that is not seeded from seed: any edge can come next.
NextShuffledUnseeded(e) == TRUE

NextShuffled(e) ==
    genPos < Len(shuffled[seed]) => e = shuffled[seed][genPos + 1]

InitSeed ==
    /\ \E d \in Dims(SeedMaxCells) :
          /\ d[1] > 0 /\ d[2] > 0
          /\ mazeW = d[1] /\ mazeH = d[2]
    /\ InitCommon

\* The loop body of lines 70-78 on the next edge of the list shuffled with seed.
GenStepSeeded ==
    /\ phase = "generating"
    /\ \E e \in edges :
          /\ NextShuffled(e)
          /\ ProcessEdge(e)
          /\ shuffled' = IF genPos < Len(shuffled[seed]) THEN shuffled
                         ELSE [shuffled EXCEPT ![seed] = Append(@, e)]
    /\ UNCHANGED <<phase, mazeW, mazeH, clock, seed, gens, searchVars>>

\* Line 79, with the finished wall grids noted down against the seed.
GenReturnSeeded ==
    /\ phase = "generating"
    /\ edges = {}
    /\ phase' = "generated"
    /\ dsParent' = <<>>
    /\ dsSz' = <<>>
    /\ genPos' = 0
    /\ gens' = Append(gens, [seed |-> seed, right |-> hasRightWall,
                              down |-> hasDownWall])
    /\ UNCHANGED <<mazeW, mazeH, hasRightWall, hasDownWall, edges, clock, seed,
                   shuffled, searchVars>>

\* A run on the maze, which reads it only, and then "Generate a NEW maze".
NewMazeSeeded ==
    /\ phase = "generated"
    /\ pc = "idle"
    /\ phase' = "start"
    /\ hasRightWall' = <<>>
    /\ hasDownWall' = <<>>
    /\ UNCHANGED <<mazeW, mazeH, genVars, seedVars, searchVars>>

\* A second passes: time(NULL) returns the next value.
Tick ==
    /\ clock < MaxClock
    /\ clock' = clock + 1
    /\ UNCHANGED <<mazeVars, genVars, seed, shuffled, gens, searchVars>>

NextSeed ==
    \/ Construct
    \/ GenStart
    \/ GenStepSeeded
    \/ GenReturnSeeded
    \/ NewMazeSeeded
    \/ Tick

SpecSeed == InitSeed /\ [][NextSeed]_vars

(* ----------------------- DisjointSet on its own ------------------------ *)
\* A DisjointSet(n) and any sequence of findRoot and unite calls on it, as
\* any code holding the struct may make them, arguments outside 0..n-1
\* included.
InitDisjointSet ==
    /\ \E n \in 1..MaxElems :
          /\ dsParent = DisjointSetParent(n)
          /\ dsSz = DisjointSetSz(n)
    /\ phase = "ds"
    /\ mazeW = 0
    /\ mazeH = 0
    /\ hasRightWall = <<>>
    /\ hasDownWall = <<>>
    /\ edges = {}
    /\ genPos = 0
    /\ clock = 0
    /\ seed = 0
    /\ shuffled = [s \in 0..MaxClock |-> <<>>]
    /\ gens = <<>>
    /\ NoRun

\* parent[x] and sz[x] with x outside 0..n-1 (lines 35, 40, 42, 43):
\* vector::operator[] does no bounds check, so the call reads and writes
\* memory outside the vectors. Undefined: the process may be killed in the
\* call ("crashed"), or the call returns and the program goes on with
\* parent and sz holding whatever the stray reads and writes left there
\* ("undefined"). No value of parent or sz is ruled out from then on, so
\* the model keeps none: dsParent and dsSz are <<>> in both phases.
DSOutOfRange ==
    /\ phase' \in {"crashed", "undefined"}
    /\ dsParent' = <<>>
    /\ dsSz' = <<>>

\* ds.findRoot(x), lines 34-36. After a call outside the range every
\* further call is accepted and its outcome is as little determined.
DSFindRoot(x) ==
    /\ phase \in {"ds", "undefined"}
    /\ IF phase = "ds" /\ x \in DOMAIN dsParent
       THEN /\ dsParent' = findRootCompress(dsParent, x)
            /\ UNCHANGED <<phase, dsSz>>
       ELSE DSOutOfRange
    /\ UNCHANGED <<mazeW, mazeH, hasRightWall, hasDownWall, edges, genPos,
                   seedVars, searchVars>>

\* ds.unite(a, b), lines 37-44.
DSUnite(a, b) ==
    /\ phase \in {"ds", "undefined"}
    /\ IF phase = "ds" /\ a \in DOMAIN dsParent /\ b \in DOMAIN dsParent
       THEN /\ dsParent' = unite(dsParent, dsSz, a, b)[1]
            /\ dsSz' = unite(dsParent, dsSz, a, b)[2]
            /\ UNCHANGED phase
       ELSE DSOutOfRange
    /\ UNCHANGED <<mazeW, mazeH, hasRightWall, hasDownWall, edges, genPos,
                   seedVars, searchVars>>

NextDisjointSet ==
    \/ \E x \in 0..(MaxElems - 1) : DSFindRoot(x)
    \/ \E a, b \in 0..(MaxElems - 1) : DSUnite(a, b)

SpecDisjointSet == InitDisjointSet /\ [][NextDisjointSet]_vars

(* ----------------------------- properties ------------------------------- *)
\* The cells of the current maze, and whether its wall grids exist.
Cells == 0..(NumCells - 1)

HasWalls == phase \in {"constructed", "generating", "generated", "supplied"}

\* Number of removed walls between cells: false entries of hasRightWall
\* at x+1 < W plus false entries of hasDownWall at y+1 < H.
RemovedWalls ==
    Cardinality({c \in (0..(mazeW - 1)) \X (0..(mazeH - 1)) :
                    c[1] + 1 < mazeW /\ ~hasRightWall[c[1]][c[2]]})
    + Cardinality({c \in (0..(mazeW - 1)) \X (0..(mazeH - 1)) :
                    c[2] + 1 < mazeH /\ ~hasDownWall[c[1]][c[2]]})

\* One breadth-first layer: S and every cell one canMove step from S.
Layer(S) ==
    S \cup UNION {{NeighbourId(u, d) : d \in {e \in 0..3 : Passable(u, e)}} : u \in S}

\* The cells a breadth-first traversal over canMove reaches from S.
RECURSIVE ReachableFrom(_)
ReachableFrom(S) ==
    LET L == Layer(S) IN IF L = S THEN S ELSE ReachableFrom(L)

\* Least number of canMove steps from a cell of S to target plus k, or -1.
RECURSIVE StepsTo(_, _, _)
StepsTo(S, target, k) ==
    IF target \in S THEN k
    ELSE IF Layer(S) = S THEN -1
    ELSE StepsTo(Layer(S), target, k + 1)

\* a and b are neighbours joined by canMove.
Joined(a, b) == \E d \in 0..3 : Passable(a, d) /\ NeighbourId(a, d) = b

\* The returned path, read from the start to the goal.
PathFromStart == [i \in 1..Len(finalPath) |-> finalPath[Len(finalPath) + 1 - i]]

\* C1: for W > 0 and H > 0 and every shuffle order, a finished generateRandom
\* has removed exactly W*H - 1 walls.
C1_RemovedWallCount ==
    (phase = "generated" /\ mazeW > 0 /\ mazeH > 0)
        => RemovedWalls = mazeW * mazeH - 1

C1_Witness ==
    /\ phase = "generated"
    /\ mazeW >= 2 /\ mazeH >= 2 /\ mazeW * mazeH >= 6
    /\ RemovedWalls = mazeW * mazeH - 1

\* C2: in every generated maze a breadth-first traversal over canMove from
\* any cell reaches all W*H cells.
C2_Connected ==
    (phase = "generated" /\ mazeW > 0 /\ mazeH > 0)
        => \A c \in Cells : ReachableFrom({c}) = Cells

C2_Witness ==
    /\ phase = "generated"
    /\ mazeW >= 2 /\ mazeH >= 2 /\ mazeW * mazeH >= 6
    /\ ReachableFrom({NumCells - 1}) = Cells
    /\ ~canMove(0, 0, 1)

\* C3: on a generated maze the path every strategy returns, read from start
\* to goal, starts at cell (0,0), ends at the goal, repeats no cell, and its
\* consecutive cells are neighbours joined by canMove.
C3_PathSimple ==
    (pc = "done" /\ phase = "generated")
        => LET p == PathFromStart
           IN  /\ Len(p) >= 1
               /\ p[1] = cellId(0, 0, mazeW)
               /\ p[Len(p)] = GoalCell
               /\ \A i, j \in 1..Len(p) : i < j => p[i] # p[j]
               /\ \A i \in 1..(Len(p) - 1) : Joined(p[i], p[i + 1])

C3_Witness ==
    /\ pc = "done"
    /\ phase = "generated"
    /\ algo = "DFS"
    /\ Len(finalPath) >= 4
    /\ Cardinality(visitedSet) > Len(finalPath)

\* C4: on a generated maze the paths of runBFS, Dijkstra and A* all have the
\* length of a shortest path from start to goal, hence the same length, and
\* the path of runDFS is at least that long.
C4_PathLengths ==
    (pc = "done" /\ phase = "generated")
        => LET shortest == StepsTo({0}, GoalCell, 0) + 1
           IN  IF algo = "DFS" THEN Len(finalPath) >= shortest
               ELSE Len(finalPath) = shortest

C4_Witness ==
    /\ pc = "done"
    /\ phase = "generated"
    /\ algo = "BFS"
    /\ Len(finalPath) >= 5
    /\ Len(finalPath) = StepsTo({0}, GoalCell, 0) + 1

\* C5: a run whose frontier became empty before the goal was reached reports
\* GoalUnreachable and produces and displays no path.
C5_GoalUnreachableReported ==
    (pc = "done" /\ cur # GoalCell)
        => (finalStatus = "GoalUnreachable" /\ finalPath = <<>>)

\* C6: constructing or generating a maze with W <= 0 or H <= 0 fails with an
\* error and yields no maze: wall grids exist, and generation finishes, only
\* for W > 0 and H > 0.
C6_InvalidDimensionsRejected ==
    (mazeW <= 0 \/ mazeH <= 0) => ~HasWalls

\* C7: on every wall grid reached by construction or generation, for every
\* cell and direction whose neighbour is in the grid, canMove from the cell
\* equals canMove from the neighbour in the opposite direction.
C7_CanMoveSymmetric ==
    HasWalls
        => \A c \in Cells : \A dir \in 0..3 :
               LET p == cellPt(c, mazeW)
                   n == Neighbour(c, dir)
               IN  InGrid(n)
                       => canMove(p.x, p.y, dir) = canMove(n.x, n.y, (dir + 2) % 4)

C7_Witness ==
    /\ phase = "generating"
    /\ mazeW >= 2 /\ mazeH >= 2
    /\ canMove(1, 1, 3) /\ canMove(0, 1, 1)
    /\ ~canMove(1, 1, 0) /\ ~canMove(1, 0, 2)

\* The wall between the neighbouring cells at p and q has been removed:
\* the right wall of the left one, or the down wall of the upper one.
WallRemovedBetween(p, q) ==
    IF p.y = q.y
    THEN ~hasRightWall[IF p.x < q.x THEN p.x ELSE q.x][p.y]
    ELSE ~hasDownWall[p.x][IF p.y < q.y THEN p.y ELSE q.y]

\* C8: canMove is false when the neighbour in the direction lies outside the
\* grid, and otherwise true exactly when the wall between the two cells has
\* been removed.
C8_CanMoveMeaning ==
    HasWalls
        => \A c \in Cells : \A dir \in 0..3 :
               LET p == cellPt(c, mazeW)
                   n == Neighbour(c, dir)
               IN  IF InGrid(n)
                   THEN canMove(p.x, p.y, dir) = WallRemovedBetween(p, n)
                   ELSE ~canMove(p.x, p.y, dir)

C8_Witness ==
    /\ phase = "generated"
    /\ mazeW >= 2 /\ mazeH >= 2
    /\ canMove(0, 0, 2) /\ ~canMove(0, 0, 1) /\ ~canMove(0, 0, 0)
    /\ WallRemovedBetween(cellPt(0, mazeW), Neighbour(0, 2))

\* The visited set at the end of the Dijkstra run on the current maze in
\* the given mode.
DijkstraVisited(skip) == pqRun("Dijkstra", skip, pqInit("Dijkstra", skip)).visited

\* C9: on the same maze, the visited set at the end of the A* run has at
\* most as many cells as the visited set at the end of the Dijkstra run,
\* whichever mode either run was made in.
C9_AStarVisitsNoMore ==
    (pc = "done" /\ phase = "generated" /\ algo = "A*")
        => \A skip \in BOOLEAN :
               Cardinality(visitedSet) <= Cardinality(DijkstraVisited(skip))

\* C10: two generations with the same W, H and seed end with identical
\* hasRightWall and hasDownWall grids.
C10_SameSeedSameGrids ==
    \A i, j \in 1..Len(gens) :
        gens[i].seed = gens[j].seed
            => (gens[i].right = gens[j].right /\ gens[i].down = gens[j].down)

C10_Witness ==
    /\ mazeW = 2 /\ mazeH = 2
    /\ Len(gens) = 3
    /\ gens[1].seed = gens[2].seed /\ gens[1].right = gens[2].right
    /\ gens[3].seed # gens[1].seed /\ gens[3].right # gens[1].right

\* The frontier structure of the run holds no cell.
FrontierEmpty == stk = <<>> /\ que = <<>> /\ pq = {}

\* C11: on every wall configuration, spanning tree or not, the loop of each
\* of the four runs, once entered, is eventually left, with the goal taken
\* from the frontier or with the frontier empty.
C11_LoopTerminates ==
    (pc = "loop") ~> (pc = "final" /\ (cur = GoalCell \/ FrontierEmpty))

C11_Witness ==
    /\ pc = "final"
    /\ algo = "DFS"
    /\ mazeW >= 2 /\ mazeH >= 2
    /\ canMove(0, 0, 1) /\ canMove(0, 0, 2) /\ canMove(1, 0, 2) /\ canMove(0, 1, 1)
    /\ cur # GoalCell
    /\ FrontierEmpty

\* C12: on the 1 x 1 maze no run, batch or stepwise, enters the direction
\* loop for any cell (nothing is expanded), and the path it returns is the
\* single cell (0,0).
C12_SingleCellNoExpansion ==
    (mazeW = 1 /\ mazeH = 1 /\ pc \in {"loop", "final", "done"})
        => /\ expanded = {}
           /\ pc = "done" => PathFromStart = <<cellId(0, 0, mazeW)>>

C12_Witness ==
    /\ mazeW = 1 /\ mazeH = 1
    /\ pc = "done"
    /\ algo = "BFS"
    /\ ~skipAnimation
    /\ cur = 0
    /\ finalPath = <<0>>

\* C13: when start equals goal (the 1 x 1 maze), a stepwise run makes no
\* drawFrame call: no step event precedes the final path.
C13_NoStepEventWhenStartIsGoal ==
    (mazeW = 1 /\ mazeH = 1 /\ pc \in {"loop", "final", "done"} /\ ~skipAnimation)
        => events = <<>>

\* The state-changing operations of one loop iteration: for runDFS the one
\* push or pop of stk, for runBFS the dequeue and one enqueue per newly
\* visited cell, for runPQ the pop and one relaxation per changed dist entry.
OpsOfStep ==
    IF algo = "DFS" THEN Abs(Len(stk') - Len(stk))
    ELSE IF algo = "BFS" THEN 1 + Cardinality(visitedSet' \ visitedSet)
    ELSE 1 + Cardinality({c \in Cells : dist'[c] # dist[c]})

\* C14: in stepwise mode every loop iteration emits exactly as many step
\* events as it performs state-changing operations (one event per push,
\* pop, dequeue, enqueue or successful relaxation).
C14_OneEventPerOperation ==
    [][(pc = "loop" /\ ~skipAnimation)
           => Len(events') - Len(events) = OpsOfStep]_vars

\* The search states <<visitedSet, pq, parentOf>> that runPQ passes through
\* from the locals r on, in the given mode.
RECURSIVE pqStates(_, _, _)
pqStates(a, skip, r) ==
    {<<r.visited, r.pq, r.parent>>}
    \cup (IF r.pc # "loop" THEN {} ELSE pqStates(a, skip, pqIter(a, skip, r)))

\* C15: every search state (visited set, frontier contents, parent array)
\* a runPQ run passes through is one that the run of the same strategy on
\* the same maze in the other mode passes through.
C15_BatchStepwiseSameStates ==
    (pc \in {"loop", "final"} /\ algo \in {"Dijkstra", "A*"})
        => <<visitedSet, pq, parentOf>>
               \in pqStates(algo, ~skipAnimation, pqInit(algo, ~skipAnimation))

\* C16: the iteration that takes the goal cell from the frontier leaves the
\* loop without entering the direction loop and without changing parentOf
\* or dist, and the only step after it is drawFinalPath on that parentOf,
\* with no further frame.
C16_StopsAtGoal ==
    [][/\ (pc = "loop" /\ cur' = GoalCell)
              => /\ pc' = "final"
                 /\ expanded' = expanded
                 /\ parentOf' = parentOf
                 /\ dist' = dist
       /\ (pc = "final" /\ cur = GoalCell)
              => /\ pc' = "done"
                 /\ drawFinalPath(parentOf, GoalCell).returns
                 /\ finalPath' = drawFinalPath(parentOf, GoalCell).cells
                 /\ events' = events
                 /\ expanded' = expanded
                 /\ parentOf' = parentOf
                 /\ dist' = dist]_vars

C16_Witness ==
    /\ pc = "done"
    /\ cur = GoalCell
    /\ algo = "BFS"
    /\ que # <<>>
    /\ Cardinality(expanded) >= 3
    /\ GoalCell \notin expanded

\* The cells held in the frontier structure of the run: stk, que or pq.
FrontierCells ==
    {stk[i] : i \in 1..Len(stk)} \cup {que[i] : i \in 1..Len(que)}
    \cup {e[2] : e \in pq}

\* C17: in stepwise mode the frame drawn last shows the search state as it
\* is (every frame is drawn after the change it reports, and nothing changes
\* between it and the end of the iteration): its frontierSnapshot is the set
\* of cells in the frontier structure, its visitedSnapshot the visited set.
C17_FrameIsSnapshot ==
    (pc \in {"loop", "final"} /\ ~skipAnimation /\ events # <<>>)
        => /\ events[Len(events)].frontierSnapshot = FrontierCells
           /\ events[Len(events)].visitedSnapshot = visitedSet

\* C18: on every wall grid manH never exceeds the least number of canMove
\* moves from the cell to the goal (for the cells the goal can be reached
\* from), is 0 at the goal, and differs by at most 1 between two cells
\* joined by canMove. Stated where no run is under way: the runs leave the
\* walls alone.
C18_ManHAdmissibleConsistent ==
    (phase = "supplied" /\ pc \in {"idle", "done"})
        => /\ \A c \in Cells :
                  StepsTo({c}, GoalCell, 0) # -1
                      => manH(c) <= StepsTo({c}, GoalCell, 0)
           /\ manH(GoalCell) = 0
           /\ \A a, b \in Cells : Joined(a, b) => Abs(manH(a) - manH(b)) <= 1

C18_Witness ==
    /\ phase = "supplied"
    /\ pc = "done"
    /\ algo = "A*"
    /\ cur = GoalCell
    /\ \E c \in Cells :
          /\ StepsTo({c}, GoalCell, 0) > manH(c)
          /\ manH(c) >= 2
    /\ \E c \in Cells : StepsTo({c}, GoalCell, 0) = -1

\* The wall that edge f stands for is present now, and after the step.
EdgeWall(f) ==
    IF f.dir = 1 THEN hasRightWall[f.x][f.y] ELSE hasDownWall[f.x][f.y]

EdgeWallAfter(f) ==
    IF f.dir = 1 THEN hasRightWall'[f.x][f.y] ELSE hasDownWall'[f.x][f.y]

\* The pairs <<a, b>> of cells with a canMove step from a to b.
Adjacent ==
    UNION {{<<a, NeighbourId(a, d)>> : d \in {e \in 0..3 : Passable(a, e)}} :
              a \in Cells}

\* The cells joined to a cell of S by a chain of pairs of adj.
RECURSIVE Grow(_, _)
Grow(S, adj) ==
    LET L == S \cup {p[2] : p \in {q \in adj : q[1] \in S}}
    IN  IF L = S THEN S ELSE Grow(L, adj)

\* The connected components of the cells under canMove.
Components == UNION {{Grow({c}, adj) : c \in Cells} : adj \in {Adjacent}}

\* The classes of cells with the same findRoot.
RootClasses ==
    {{b \in Cells : findRoot(dsParent, b) = findRoot(dsParent, a)} : a \in Cells}

\* After any prefix of the edge list: the removed walls form a forest (as
\* many removed walls as cells minus components), and two cells have the
\* same root exactly when removed walls connect them (the classes of equal
\* root are the connected components).
GenInvariant ==
    phase = "generating"
        => \E comps \in {Components} :
              /\ RemovedWalls = NumCells - Cardinality(comps)
              /\ RootClasses = comps

\* One iteration on edge e: its wall, present before, is removed exactly
\* when removed walls did not yet connect its two endpoints, and no other
\* wall changes.
GenStepEffect ==
    (phase = "generating" /\ edges' # edges)
        => \E e \in edges :
              /\ edges' = edges \ {e}
              /\ EdgeWall(e)
              /\ \E adj \in {Adjacent} :
                     ~EdgeWallAfter(e)
                         <=> EdgeB(e, mazeW) \notin Grow({EdgeA(e, mazeW)}, adj)
              /\ \A f \in EdgeList(mazeW, mazeH) \ {e} :
                     EdgeWallAfter(f) = EdgeWall(f)

\* C19: at every point during generateRandom the removed walls are acyclic,
\* same root means connected through removed walls and conversely, and a
\* wall is removed exactly when its endpoints were in different components
\* when its edge was processed.
C19_KruskalInvariant == []GenInvariant /\ [][GenStepEffect]_vars

C19_Witness ==
    /\ phase = "generating"
    /\ mazeW >= 2 /\ mazeH >= 2
    /\ edges # {}
    /\ \E f \in EdgeList(mazeW, mazeH) \ edges :
          /\ EdgeWall(f)
          /\ findRoot(dsParent, EdgeA(f, mazeW)) = findRoot(dsParent, EdgeB(f, mazeW))
    /\ Cardinality(Components) = 2

\* The elements of the DisjointSet, and the sum of sz over a set of them.
Elems == DOMAIN dsParent

RECURSIVE SumSz(_)
SumSz(R) ==
    IF R = {} THEN 0
    ELSE LET r == CHOOSE x \in R : TRUE IN dsSz[r] + SumSz(R \ {r})

\* For every root r, sz[r] is the number of elements whose findRoot is r,
\* and the sizes of the roots sum to n.
RootSizes ==
    phase = "ds"
        => /\ \A r \in Elems :
                  dsParent[r] = r
                      => dsSz[r] = Cardinality({x \in Elems :
                                                  findRoot(dsParent, x) = r})
           /\ SumSz({r \in Elems : dsParent[r] = r}) = Cardinality(Elems)

\* unite(a, b) on different components: one of the two roots, of a size no
\* larger than the other's, is attached under the other, which stays a
\* root and takes the sum of the two sizes; no other component changes.
UniteMerges(a, b) ==
    LET ra == findRoot(dsParent, a)
        rb == findRoot(dsParent, b)
    IN  \E big, small \in {ra, rb} :
           /\ big # small
           /\ dsSz[small] <= dsSz[big]
           /\ dsParent'[small] = big
           /\ dsParent'[big] = big
           /\ dsSz'[big] = dsSz[big] + dsSz[small]
           /\ \A x \in Elems :
                  findRoot(dsParent', x)
                      = IF findRoot(dsParent, x) \in {ra, rb} THEN big
                        ELSE findRoot(dsParent, x)

\* unite(a, b) on different components whose roots have equal sizes: line
\* 40 does not swap, so the root of b goes under the root of a.
UniteTie(a, b) ==
    LET ra == findRoot(dsParent, a)
        rb == findRoot(dsParent, b)
    IN  dsSz[ra] = dsSz[rb] => (dsParent'[rb] = ra /\ dsParent'[ra] = ra)

\* No element's root and no size changes.
RootsAndSizesKept ==
    /\ \A x \in Elems : findRoot(dsParent', x) = findRoot(dsParent, x)
    /\ dsSz' = dsSz

\* C20 as stated: unite on one component changes nothing at all (parent
\* and sz are as before), unite on two components attaches the smaller
\* root under the larger, and the root sizes count the components.
C20_UniteChangesNothing ==
    /\ []RootSizes
    /\ [][\A a, b \in Elems :
              DSUnite(a, b)
                  => IF findRoot(dsParent, a) = findRoot(dsParent, b)
                     THEN dsParent' = dsParent /\ dsSz' = dsSz
                     ELSE UniteMerges(a, b)]_vars

\* C20 with path compression allowed for: unite on one component, and
\* findRoot, change no element's root and no size (they may re-parent
\* elements directly to the root they already had); unite on two
\* components attaches the smaller root under the larger, and on equal
\* sizes the root of b under the root of a; and the root sizes count the
\* components.
C20_UniteKeepsComponents ==
    /\ []RootSizes
    /\ [][/\ \A a, b \in Elems :
                DSUnite(a, b)
                    => IF findRoot(dsParent, a) = findRoot(dsParent, b)
                       THEN RootsAndSizesKept
                       ELSE UniteMerges(a, b) /\ UniteTie(a, b)
          /\ \A x \in Elems : DSFindRoot(x) => RootsAndSizesKept]_vars

C20_Witness ==
    /\ phase = "ds"
    /\ Cardinality(Elems) = 4
    /\ dsParent = [i \in Elems |-> 0]
    /\ dsSz[0] = 4
    /\ dsSz[2] = 2

\* Direction dir from u is passable and leads to a cell not yet visited.
Untried(u, dir) == Passable(u, dir) /\ NeighbourId(u, dir) \notin visitedSet

\* stk is one path from the start: cell 0 at the bottom, every element above
\* it a canMove neighbour of the one below with that one as its parentOf,
\* and no cell twice.
StackIsActivePath ==
    /\ stk # <<>>
    /\ stk[1] = 0
    /\ \A i \in 2..Len(stk) : /\ Joined(stk[i - 1], stk[i])
                              /\ parentOf[stk[i]] = stk[i - 1]
    /\ \A i, j \in 1..Len(stk) : stk[i] = stk[j] => i = j

\* What one iteration does to stk when its top u is not the goal: a push of
\* the neighbour in the first untried direction (up, right, down, left), or
\* a pop when no direction is untried.
StackStepEffect ==
    (pc = "loop" /\ algo = "DFS" /\ stk[Len(stk)] # GoalCell)
        => LET u == stk[Len(stk)]
           IN  \/ \E dir \in 0..3 :
                     /\ Untried(u, dir)
                     /\ \A e \in 0..(dir - 1) : ~Untried(u, e)
                     /\ stk' = Append(stk, NeighbourId(u, dir))
               \/ /\ \A dir \in 0..3 : ~Untried(u, dir)
                  /\ stk' = SubSeq(stk, 1, Len(stk) - 1)

\* C21: at every iteration of the DFS loop the stack is a single active
\* path from the start (bottom element 0, each element a canMove neighbour
\* of the one below it and its child in parentOf, no cell twice), the cell
\* pushed next is the neighbour in the first direction of up, right, down,
\* left that is passable and not yet visited, and a pop happens only when
\* there is no such direction.
C21_StackIsActivePath ==
    /\ []((pc = "loop" /\ algo = "DFS") => StackIsActivePath)
    /\ [][StackStepEffect]_vars

\* A run that has backtracked and then pushed in a direction other than the
\* first one in the grid: the stack is shorter than the visited set.
C21_Witness ==
    /\ pc = "loop"
    /\ algo = "DFS"
    /\ Len(stk) >= 3
    /\ Cardinality(visitedSet) > Len(stk)
    /\ \E d \in 1..3 : /\ NeighbourId(stk[Len(stk) - 1], d) = stk[Len(stk)]
                       /\ \E e \in 0..(d - 1) : Passable(stk[Len(stk) - 1], e)

\* The walk along par from v is left after n hops "v = parentOf[v]" between
\* cells, the last cell being the start. No n does for a walk that is
\* never left.
ChainToStart(par, v, n) ==
    LET walk == PathChain(par, v, {})
    IN  /\ walk.returns
        /\ Len(walk.cells) = n + 1
        /\ walk.cells[n + 1] = 0

\* The cells of the "enqueue" frames of a stepwise run, in order.
EnqueueFrames == SelectSeq(events, LAMBDA f : f.message = "enqueue")

\* Every discovered cell hangs on a parent chain to the start whose length
\* is the least number of canMove moves from the start; que holds only
\* discovered cells, none twice; a stepwise run has drawn at most one
\* "enqueue" frame per cell and none for the start.
BFSDiscoveryInvariant ==
    (algo = "BFS" /\ pc \in {"loop", "final", "done"})
        => /\ \A v \in visitedSet :
                 ChainToStart(parentOf, v, StepsTo({0}, v, 0))
           /\ \A i \in 1..Len(que) : que[i] \in visitedSet
           /\ \A i, j \in 1..Len(que) : que[i] = que[j] => i = j
           /\ \A i, j \in 1..Len(EnqueueFrames) :
                 /\ EnqueueFrames[i].frontierSnapshot # {0}
                 /\ EnqueueFrames[i].frontierSnapshot = EnqueueFrames[j].frontierSnapshot
                        => i = j

\* One iteration of the BFS loop: que' is the rest of que followed by the
\* cells it enqueued; each of those was not discovered before, is enqueued
\* once, and is discovered afterwards; no discovered cell is forgotten and
\* no parent chain of a discovered cell changes.
BFSEnqueueEffect ==
    (algo = "BFS" /\ pc = "loop")
        => /\ Len(que') >= Len(que) - 1
           /\ SubSeq(que', 1, Len(que) - 1) = Tail(que)
           /\ \A i \in Len(que)..Len(que') :
                 /\ que'[i] \notin visitedSet
                 /\ que'[i] \in visitedSet'
                 /\ \A j \in Len(que)..Len(que') : que'[i] = que'[j] => i = j
           /\ visitedSet' = visitedSet \cup {que'[i] : i \in Len(que)..Len(que')}
           /\ \A v \in visitedSet : parentOf'[v] = parentOf[v]

\* C22: in runBFS on any wall grid every cell is enqueued at most once, and
\* from the moment a cell is discovered the length of its parent chain back
\* to the start is the least number of canMove moves from the start to it.
C22_BFSFirstDiscoveryShortest ==
    /\ []BFSDiscoveryInvariant
    /\ [][BFSEnqueueEffect]_vars

\* A grid with a cycle: a cell at depth two or more that two expanded cells
\* are both joined to, so that it was met twice and enqueued once.
C22_Witness ==
    /\ algo = "BFS"
    /\ pc = "loop"
    /\ \E v \in visitedSet :
          /\ \E n \in 2..NumCells : ChainToStart(parentOf, v, n)
          /\ \E a, b \in expanded : a # b /\ Joined(a, v) /\ Joined(b, v)
                                     /\ parentOf[a] # v /\ parentOf[b] # v

\* Following par from v comes to an end, and the last cell is the start.
ChainEndsAtStart(par, v) ==
    LET walk == PathChain(par, v, {})
    IN  /\ walk.returns
        /\ walk.cells[Len(walk.cells)] = 0

\* C23: in every state of every run parentOf[start] is -1 and the parent
\* pointers have no cycle: from every cell with a parent the parentOf chain
\* reaches the start within finitely many steps, and the reconstruction
\* drawFinalPath makes from the goal ends at the start.
C23_ParentChainsReachStart ==
    (pc \in {"loop", "final", "done"})
        => /\ parentOf[0] = -1
           /\ \A v \in 0..(NumCells - 1) :
                 parentOf[v] # -1 => ChainEndsAtStart(parentOf, v)
           /\ pc \in {"final", "done"} => ChainEndsAtStart(parentOf, GoalCell)
           /\ pc = "done" => /\ finalPath = drawFinalPath(parentOf, GoalCell).cells
                             /\ finalPath[Len(finalPath)] = 0

=============================================================================
